---- MODULE Spec2Model ----
(***************************************************************************)
(* libmproxy/models/flow.py: the Error and Flow records, the one-level     *)
(* backup/revert undo and the intercept / accept_intercept / kill          *)
(* transitions, together with the live handler that hands a reply          *)
(* continuation to the flow and blocks on it, and the controller (master)  *)
(* that is notified by the transitions.                                    *)
(***************************************************************************)
EXTENDS Integers, Sequences, FiniteSets, TLC

\* Bounds of the model.
MaxOps == 4        \* calls and field assignments made on flows in one run
MaxFlows == 2      \* flow instances: the original and its copies
MaxReplies == 2    \* reply continuations handed over by the live handler
MaxClock == 2      \* readings of utils.timestamp()

\* Python's None.  Every other value of an optional slot is a record with
\* other fields, so None differs from all of them.
None == [none |-> TRUE]

\* Values the handler and the controller assign to the plain fields.
Types == {"http", "tcp"}
Conns == {[address |-> "a1"], [address |-> "a2"]}
Msgs == {"timeout"}

\* version.IVERSION, stamped into every state dump.
IVERSION == "IVERSION"

\* The payload of reply() when called without argument, and protocol.Kill.
NoPayload == "None"
Kill == "Kill"

VARIABLES
    flows,      \* the Flow instances; flows[1] is the live original
    snap,       \* snap[i]: instance i as backup() found it when it captured, or None
    replies,    \* replies[r]: the payloads reply continuation r was invoked with
    handler,    \* the live handler of flows[1]: "running", "waiting", "aborted"
    held,       \* the handler's current wait is an interception
    master,     \* how often each handle_* of the controller was called
    now,        \* the clock read by utils.timestamp()
    last,       \* the last call made on a flow, and what it did
    nops,       \* calls made so far
    cap         \* a backup() of flows[1] that runs beside the handler, or None

vars == <<flows, snap, replies, handler, held, master, now, last, nops, cap>>

----------------------------------------------------------------------------
(* Error *)

\* Error.__init__: flow back-reference unset, timestamp or utils.timestamp().
Error(msg, timestamp, clock) ==
    [flow |-> None, msg |-> msg,
     timestamp |-> IF timestamp = None THEN clock ELSE timestamp.t]

\* Error._stateobject_attributes: msg and timestamp, not the back-reference.
Error_get_state(e) == [msg |-> e.msg, timestamp |-> e.timestamp]

\* Error.from_state: cls(None) followed by load_state(state).
Error_from_state(state, clock) ==
    [Error("None", None, clock) EXCEPT !.msg = state.msg,
                                       !.timestamp = state.timestamp]

\* Error.copy: copy.copy(self), a shallow copy of every attribute.
Error_copy(e) == e

----------------------------------------------------------------------------
(* Connection records *)

conn_get_state(c) == [address |-> c.address]
conn_from_state(state) == [address |-> state.address]
conn_copy(c) == [address |-> c.address]

----------------------------------------------------------------------------
(* Flow *)

\* uuid.uuid4(): an id no instance was given before.
uuid4 == Len(flows) + 1

\* Flow.__init__
Flow(type, id, client_conn, server_conn, live) ==
    [type |-> type, id |-> id, client_conn |-> client_conn,
     server_conn |-> server_conn, live |-> live, error |-> None,
     intercepted |-> FALSE, backup |-> None, reply |-> None]

\* StateObject.get_state over Flow._stateobject_attributes.  The short dump
\* is for display: it leaves out the nested connection records.
StateObject_get_state(f, short) ==
    IF short
    THEN [id |-> f.id,
          error |-> IF f.error = None THEN None ELSE Error_get_state(f.error),
          type |-> f.type,
          intercepted |-> f.intercepted]
    ELSE [id |-> f.id,
          error |-> IF f.error = None THEN None ELSE Error_get_state(f.error),
          client_conn |-> conn_get_state(f.client_conn),
          server_conn |-> conn_get_state(f.server_conn),
          type |-> f.type,
          intercepted |-> f.intercepted]

\* Flow.get_state
get_state(f, short) ==
    LET d == [version |-> IVERSION] @@ StateObject_get_state(f, short)
    IN  IF f.backup # None /\ f.backup # d
        THEN IF short THEN [modified |-> TRUE] @@ d
                      ELSE [backup |-> f.backup] @@ d
        ELSE d

\* StateObject.load_state over Flow._stateobject_attributes.
load_state(f, state, clock) ==
    [f EXCEPT !.id = state.id,
              !.error = IF state.error = None THEN None
                        ELSE Error_from_state(state.error, clock),
              !.client_conn = conn_from_state(state.client_conn),
              !.server_conn = conn_from_state(state.server_conn),
              !.type = state.type,
              !.intercepted = state.intercepted]

\* Flow.copy
copy(f, newid) ==
    [f EXCEPT !.id = newid,
              !.live = "False",
              !.client_conn = conn_copy(f.client_conn),
              !.server_conn = conn_copy(f.server_conn),
              !.error = IF f.error # None THEN Error_copy(f.error) ELSE f.error]

\* modified() that reports every flow holding a backup as modified.
modified_with_any_backup(f) == f.backup # None

\* Flow.modified
modified(f) ==
    IF f.backup # None THEN f.backup # get_state(f, FALSE) ELSE FALSE

\* backup() that captures even when a backup is present.
backup_overwriting(f) == [f EXCEPT !.backup = get_state(f, FALSE)]

\* Flow.backup
backup(f) ==
    IF f.backup = None THEN [f EXCEPT !.backup = get_state(f, FALSE)] ELSE f

\* revert() that drops the backup without restoring from it.
revert_without_restore(f, clock) ==
    IF f.backup # None THEN [f EXCEPT !.backup = None] ELSE f

\* revert() that restores from the backup and keeps it.
revert_keeping_backup(f, clock) ==
    IF f.backup # None THEN load_state(f, f.backup, clock) ELSE f

\* Flow.revert
revert(f, clock) ==
    IF f.backup # None
    THEN [load_state(f, f.backup, clock) EXCEPT !.backup = None]
    ELSE f

----------------------------------------------------------------------------
(* The interception transitions.  Each yields the flow as the call leaves  *)
(* it, the calls it made on the reply continuation and on the master, in   *)
(* order, and whether it raised.                                           *)

ReplyEvent(f, payload) ==
    [kind |-> "reply", arg |-> payload,
     intercepted |-> f.intercepted, error |-> f.error # None]
NotifyEvent(f, name) ==
    [kind |-> name, arg |-> NoPayload,
     intercepted |-> f.intercepted, error |-> f.error # None]

Returned(f, trace) == [f |-> f, trace |-> trace, raised |-> FALSE]
\* Calling reply while the slot holds None raises TypeError.
Raised(f, trace) == [f |-> f, trace |-> trace, raised |-> TRUE]

\* kill() that replies and notifies before it updates error and intercepted.
kill_updating_last(f, clock) ==
    LET f1 == [f EXCEPT !.error = Error("Connection killed", None, clock)]
        f2 == [f1 EXCEPT !.intercepted = FALSE]
    IN  IF f.reply = None
        THEN Raised(f, <<>>)
        ELSE Returned(f2, <<ReplyEvent(f, Kill), NotifyEvent(f, "handle_error")>>)

\* Flow.kill
kill(f, clock) ==
    LET f1 == [f EXCEPT !.error = Error("Connection killed", None, clock)]
        f2 == [f1 EXCEPT !.intercepted = FALSE]
    IN  IF f2.reply = None
        THEN Raised(f2, <<>>)
        ELSE Returned(f2, <<ReplyEvent(f2, Kill), NotifyEvent(f2, "handle_error")>>)

\* intercept() without the early return on an intercepted flow.
intercept_unguarded(f) ==
    LET f1 == [f EXCEPT !.intercepted = TRUE]
    IN  Returned(f1, <<NotifyEvent(f1, "handle_intercept")>>)

\* Flow.intercept
intercept(f) ==
    IF f.intercepted
    THEN Returned(f, <<>>)
    ELSE LET f1 == [f EXCEPT !.intercepted = TRUE]
         IN  Returned(f1, <<NotifyEvent(f1, "handle_intercept")>>)

\* accept_intercept() without the early return on a flow not intercepted.
accept_intercept_unguarded(f) ==
    LET f1 == [f EXCEPT !.intercepted = FALSE]
    IN  IF f1.reply = None
        THEN Raised(f1, <<>>)
        ELSE Returned(f1, <<ReplyEvent(f1, NoPayload),
                            NotifyEvent(f1, "handle_accept_intercept")>>)

\* Flow.accept_intercept
accept_intercept(f) ==
    IF ~f.intercepted
    THEN Returned(f, <<>>)
    ELSE LET f1 == [f EXCEPT !.intercepted = FALSE]
         IN  IF f1.reply = None
             THEN Raised(f1, <<>>)
             ELSE Returned(f1, <<ReplyEvent(f1, NoPayload),
                                 NotifyEvent(f1, "handle_accept_intercept")>>)

----------------------------------------------------------------------------
(* The reply continuation and the live handler *)

\* The flow is in its killed status.
Killed(f) == f.error # None /\ f.error.msg = "Connection killed"

Notified(trace, name) == Len(SelectSeq(trace, LAMBDA e : e.kind = name))

\* The payloads a trace passes to the reply continuation.
RECURSIVE Payloads(_)
Payloads(trace) ==
    IF trace = <<>> THEN <<>>
    ELSE (IF Head(trace).kind = "reply" THEN <<Head(trace).arg>> ELSE <<>>)
         \o Payloads(Tail(trace))

\* The continuation the waiting handler is blocked on: the last one it made.
Awaited == Len(replies)

\* The handler is blocked on the continuation held in f's reply slot.
BlockedOn(f) ==
    /\ handler = "waiting"
    /\ f.reply # None
    /\ f.reply.ref = Awaited

\* reply(payload): the continuation records the call; the handler blocked on
\* it resumes, and aborts when told to.
Invoke(f, trace) ==
    IF Payloads(trace) = <<>> THEN replies
    ELSE [replies EXCEPT ![f.reply.ref] = @ \o Payloads(trace)]

Resume(f, trace) ==
    IF Payloads(trace) # <<>> /\ BlockedOn(f)
    THEN IF Head(Payloads(trace)) = Kill THEN "aborted" ELSE "running"
    ELSE handler

\* master.handle_*(flow)
Notify(trace) ==
    [h \in DOMAIN master |-> master[h] + Notified(trace, h)]

\* What a call finds: the state of the flow it is made on.
Pre(i) ==
    [intercepted |-> flows[i].intercepted,
     killed |-> Killed(flows[i]),
     backup |-> flows[i].backup # None,
     modified |-> modified(flows[i]),
     blocked |-> BlockedOn(flows[i]),
     held |-> held /\ i = 1]

Called(op, i, res) ==
    [op |-> op, flow |-> i, raised |-> res.raised, trace |-> res.trace,
     pre |-> Pre(i), undo |-> IF op = "revert" THEN snap[i] ELSE None]

\* A method of flow i runs to its end: its effects on the flow, on the reply
\* continuation (and through it on the handler) and on the master.
Call(op, i, res) ==
    /\ nops < MaxOps
    /\ nops' = nops + 1
    /\ flows' = [flows EXCEPT ![i] = res.f]
    /\ replies' = Invoke(flows[i], res.trace)
    /\ handler' = Resume(flows[i], res.trace)
    /\ held' = IF handler' # "waiting" THEN FALSE
               ELSE IF i = 1 /\ op = "intercept" /\ ~flows[1].intercepted THEN TRUE
               ELSE held
    /\ master' = Notify(res.trace)
    /\ last' = Called(op, i, res)
    /\ cap' = cap

----------------------------------------------------------------------------
(* Actions *)

Init ==
    /\ flows = <<Flow("http", 1, [address |-> "a1"], [address |-> "a2"], "live")>>
    /\ snap = <<None>>
    /\ replies = <<>>
    /\ handler = "running"
    /\ held = FALSE
    /\ master = [handle_error |-> 0, handle_intercept |-> 0,
                 handle_accept_intercept |-> 0]
    /\ now = 1
    /\ last = [op |-> "init", flow |-> 1, raised |-> FALSE, trace |-> <<>>,
               pre |-> [intercepted |-> FALSE, killed |-> FALSE,
                        backup |-> FALSE, modified |-> FALSE,
                        blocked |-> FALSE, held |-> FALSE],
               undo |-> None]
    /\ nops = 0
    /\ cap = None

\* utils.timestamp() advances.
Tick ==
    /\ now < MaxClock
    /\ now' = now + 1
    /\ UNCHANGED <<flows, snap, replies, handler, held, master, last, nops, cap>>

\* The live handler sends the flow for review: it puts a fresh reply
\* continuation into the original's reply slot and blocks on it.
HandOver ==
    /\ handler = "running"
    /\ Len(replies) < MaxReplies
    /\ replies' = Append(replies, <<>>)
    /\ flows' = [flows EXCEPT ![1].reply = [ref |-> Len(replies) + 1]]
    /\ handler' = "waiting"
    /\ held' = flows[1].intercepted
    /\ last' = Called("handover", 1, Returned(flows'[1], <<>>))
    /\ UNCHANGED <<snap, master, now, nops, cap>>

Intercept(i) ==
    /\ Call("intercept", i, intercept(flows[i]))
    /\ UNCHANGED <<snap, now>>

AcceptIntercept(i) ==
    /\ Call("accept_intercept", i, accept_intercept(flows[i]))
    /\ UNCHANGED <<snap, now>>

KillFlow(i) ==
    /\ Call("kill", i, kill(flows[i], now))
    /\ UNCHANGED <<snap, now>>

Backup(i) ==
    /\ Call("backup", i, Returned(backup(flows[i]), <<>>))
    /\ snap' = IF flows[i].backup = None
               THEN [snap EXCEPT ![i] = flows[i]]
               ELSE snap
    /\ UNCHANGED now

Revert(i) ==
    /\ Call("revert", i, Returned(revert(flows[i], now), <<>>))
    /\ snap' = [snap EXCEPT ![i] = None]
    /\ UNCHANGED now

\* Direct assignment to a field by the flow's handler or by the controller.
SetType(i, v) ==
    /\ flows[i].type # v
    /\ Call("edit", i, Returned([flows[i] EXCEPT !.type = v], <<>>))
    /\ UNCHANGED <<snap, now>>

SetClientConn(i, v) ==
    /\ flows[i].client_conn # v
    /\ Call("edit", i, Returned([flows[i] EXCEPT !.client_conn = v], <<>>))
    /\ UNCHANGED <<snap, now>>

SetServerConn(i, v) ==
    /\ flows[i].server_conn # v
    /\ Call("edit", i, Returned([flows[i] EXCEPT !.server_conn = v], <<>>))
    /\ UNCHANGED <<snap, now>>

SetError(i, v) ==
    /\ flows[i].error # v
    /\ Call("edit", i, Returned([flows[i] EXCEPT !.error = v], <<>>))
    /\ UNCHANGED <<snap, now>>

\* c = flows[i].copy(): a new instance.
Copy(i) ==
    /\ Len(flows) < MaxFlows
    /\ nops < MaxOps
    /\ nops' = nops + 1
    /\ flows' = Append(flows, copy(flows[i], uuid4))
    /\ snap' = Append(snap, None)
    /\ last' = Called("copy", i, Returned(flows[i], <<>>))
    /\ UNCHANGED <<replies, handler, held, master, now, cap>>

\* The controller, or for field assignments the handler, acts on any instance.
OnIntercept == \E i \in DOMAIN flows : Intercept(i)
OnAcceptIntercept == \E i \in DOMAIN flows : AcceptIntercept(i)
OnKill == \E i \in DOMAIN flows : KillFlow(i)
OnBackup == \E i \in DOMAIN flows : Backup(i)
OnRevert == \E i \in DOMAIN flows : Revert(i)
OnCopy == \E i \in DOMAIN flows : Copy(i)
OnSetType == \E i \in DOMAIN flows, v \in Types : SetType(i, v)
OnSetClientConn == \E i \in DOMAIN flows, v \in Conns : SetClientConn(i, v)
OnSetServerConn == \E i \in DOMAIN flows, v \in Conns : SetServerConn(i, v)
OnSetError ==
    \E i \in DOMAIN flows, v \in {None} \cup {Error(m, None, now) : m \in Msgs} :
        SetError(i, v)

Next ==
    \/ Tick
    \/ HandOver
    \/ OnIntercept
    \/ OnAcceptIntercept
    \/ OnKill
    \/ OnBackup
    \/ OnRevert
    \/ OnCopy
    \/ OnSetType
    \/ OnSetClientConn
    \/ OnSetServerConn
    \/ OnSetError

Spec == Init /\ [][Next]_vars

\* The owning flow sets the back-reference of its error.
AdoptError(i) ==
    /\ flows[i].error # None
    /\ flows[i].error.flow # [ref |-> i]
    /\ Call("edit", i,
            Returned([flows[i] EXCEPT !.error.flow = [ref |-> i]], <<>>))
    /\ UNCHANGED <<snap, now>>

OnAdoptError == \E i \in DOMAIN flows : AdoptError(i)

\* The flows with owners that set the back-reference of their errors.
NextBackref == Next \/ OnAdoptError

SpecBackref == Init /\ [][NextBackref]_vars

----------------------------------------------------------------------------
(* backup() of the live flow on the controller's thread while the handler's *)
(* thread assigns to the flow's fields: get_state reads the declared        *)
(* attributes one after the other, in the order the schema dict yields      *)
(* them, and the handler may run between any two reads.                     *)

Attributes == {"id", "error", "client_conn", "server_conn", "type", "intercepted"}

\* The flow after one assignment by the handler to one of its fields.
Mutations(f) ==
    ({[f EXCEPT !.type = v] : v \in Types}
        \cup {[f EXCEPT !.client_conn = v] : v \in Conns}
        \cup {[f EXCEPT !.server_conn = v] : v \in Conns}
        \cup {[f EXCEPT !.error = Error(m, None, now)] : m \in Msgs}
        \cup {[f EXCEPT !.error = None]}) \ {f}

\* backup(): the slot is empty, get_state() starts.
CaptureBegin ==
    /\ cap = None
    /\ flows[1].backup = None
    /\ cap' = [pc |-> "reading", read |-> <<>>, seen |-> {flows[1]}]
    /\ UNCHANGED <<flows, snap, replies, handler, held, master, now, last, nops>>

\* get_state() reads and dumps one more attribute.
CaptureRead(k) ==
    /\ cap # None
    /\ cap.pc = "reading"
    /\ k \notin DOMAIN cap.read
    /\ cap' = [cap EXCEPT
                 !.read = @ @@ (k :> StateObject_get_state(flows[1], FALSE)[k])]
    /\ UNCHANGED <<flows, snap, replies, handler, held, master, now, last, nops>>

OnCaptureRead == \E k \in Attributes : CaptureRead(k)

\* get_state() stamps the version and returns; backup() stores the result.
CaptureEnd ==
    /\ cap # None
    /\ cap.pc = "reading"
    /\ DOMAIN cap.read = Attributes
    /\ flows' = [flows EXCEPT ![1].backup = [version |-> IVERSION] @@ cap.read]
    /\ cap' = [cap EXCEPT !.pc = "done"]
    /\ UNCHANGED <<snap, replies, handler, held, master, now, last, nops>>

\* The handler assigns to a field of the live flow.
HandlerMutates ==
    /\ nops < MaxOps
    /\ nops' = nops + 1
    /\ \E g \in Mutations(flows[1]) :
          /\ flows' = [flows EXCEPT ![1] = g]
          /\ cap' = IF cap # None /\ cap.pc = "reading"
                    THEN [cap EXCEPT !.seen = @ \cup {g}]
                    ELSE cap
    /\ UNCHANGED <<snap, replies, handler, held, master, now, last>>

NextRace ==
    \/ CaptureBegin
    \/ OnCaptureRead
    \/ CaptureEnd
    \/ HandlerMutates
    \/ Tick

SpecRace == Init /\ [][NextRace]_vars

TypeOK ==
    /\ Len(flows) \in 1..MaxFlows
    /\ Len(snap) = Len(flows)
    /\ Len(replies) \in 0..MaxReplies
    /\ handler \in {"running", "waiting", "aborted"}
    /\ held \in BOOLEAN
    /\ now \in 1..MaxClock
    /\ nops \in 0..MaxOps

----------------------------------------------------------------------------
(* Properties *)

\* What a step leaves alone when a call on a flow is a no-op.
NothingChanged ==
    /\ flows' = flows
    /\ replies' = replies
    /\ master' = master
    /\ handler' = handler

\* The declared fields of a flow, read off the instance itself.
Declared(f) ==
    <<f.id, f.type, f.intercepted, f.client_conn, f.server_conn,
      IF f.error = None THEN <<>> ELSE <<f.error.msg, f.error.timestamp>> >>

\* C1: between two hand-overs of a fresh reply by the handler, the calls made
\* on one flow invoke the reply continuation at most once.
C1_ReplyInvokedAtMostOnce ==
    Len(flows) = 1 => \A r \in DOMAIN replies : Len(replies[r]) <= 1

\* C2: kill() on an already killed flow does not invoke the reply
\* continuation, does not call master.handle_error and changes no field of
\* the flow.
C2_KillIdempotent ==
    [][\A i \in DOMAIN flows :
         (Killed(flows[i]) /\ flows[i].reply # None /\ KillFlow(i)) =>
             /\ flows'[i] = flows[i]
             /\ replies' = replies
             /\ master' = master]_vars

\* C3: kill() on a flow that is not yet killed, its reply slot set or not,
\* returns without raising, with error.msg "Connection killed", intercepted
\* false, the reply continuation invoked once with Kill and
\* master.handle_error called once.
C3_KillCompletes ==
    (last.op = "kill" /\ ~last.pre.killed) =>
        /\ ~last.raised
        /\ Killed(flows[last.flow])
        /\ ~flows[last.flow].intercepted
        /\ Payloads(last.trace) = <<Kill>>
        /\ Notified(last.trace, "handle_error") = 1

\* C4: while the handler waits on the un-invoked reply of an interception,
\* the flow's intercepted flag is true.
C4_BlockedOnlyWhileIntercepted ==
    (handler = "waiting" /\ held) => flows[1].intercepted

\* C5: accept_intercept() or kill() called while the handler is blocked in an
\* interception invokes the reply continuation, once, and the handler
\* resumes.
C5_ReleaseResumes ==
    [][(handler = "waiting" /\ held /\ (AcceptIntercept(1) \/ KillFlow(1))) =>
          /\ handler' # "waiting"
          /\ Len(replies'[Awaited]) = 1]_vars

\* C6: on a killed flow no call of intercept(), accept_intercept() or kill()
\* sets intercepted, replaces the "Connection killed" error or notifies the
\* controller.
C6_KilledIsTerminal ==
    [][\A i \in DOMAIN flows :
         (/\ Killed(flows[i])
          /\ flows[i].reply # None
          /\ (Intercept(i) \/ AcceptIntercept(i) \/ KillFlow(i))) =>
             /\ ~flows'[i].intercepted
             /\ flows'[i].error = flows[i].error
             /\ master' = master]_vars

\* C7: intercept() leaves intercepted true; on a flow not yet intercepted it
\* calls master.handle_intercept once and changes nothing but the flag; on an
\* intercepted flow, and so when it directly follows another intercept() on
\* the same flow, it changes nothing and notifies nobody.
C7_InterceptIdempotent ==
    [][\A i \in DOMAIN flows : Intercept(i) =>
         /\ flows'[i].intercepted
         /\ replies' = replies
         /\ ~last'.raised
         /\ IF flows[i].intercepted
            THEN NothingChanged
            ELSE /\ flows' = [flows EXCEPT ![i].intercepted = TRUE]
                 /\ master' = [master EXCEPT !.handle_intercept = @ + 1]
         /\ (last.op = "intercept" /\ last.flow = i) => NothingChanged]_vars

\* C7: a second intercept() in a row has been made on the original.
C7_Witness ==
    /\ last.op = "intercept"
    /\ last.pre.intercepted
    /\ Len(flows) = 1
    /\ nops = 2
    /\ master.handle_intercept = 1

\* C8: accept_intercept() on a flow that is not intercepted invokes no reply,
\* notifies nobody, raises nothing and changes no field.
C8_AcceptNotInterceptedIsNoop ==
    [][\A i \in DOMAIN flows :
         (~flows[i].intercepted /\ AcceptIntercept(i)) =>
             /\ NothingChanged
             /\ ~last'.raised
             /\ last'.trace = <<>>]_vars

\* C8: accept_intercept() was called on a flow that was not intercepted while
\* the handler was blocked on the flow's reply continuation.
C8_Witness ==
    /\ last.op = "accept_intercept"
    /\ ~last.pre.intercepted
    /\ last.pre.blocked
    /\ handler = "waiting"

\* C9: every instance keeps the id it was given when constructed or copied,
\* and no two instances have the same id.
C9_IdFixedAndUnique ==
    \A i, j \in DOMAIN flows :
        /\ flows[i].id = i
        /\ i # j => flows[i].id # flows[j].id

\* C10: after backup() captured a flow, modified() is true exactly when a
\* declared field differs from its value at the capture, and revert() then
\* makes modified() false and returns every declared field, and the full
\* state, to its value at the capture.
C10_BackupRevertUndoes ==
    /\ \A i \in DOMAIN flows :
         snap[i] # None =>
             (modified(flows[i]) <=> Declared(flows[i]) # Declared(snap[i]))
    /\ (last.op = "revert" /\ last.undo # None) =>
           /\ ~modified(flows[last.flow])
           /\ Declared(flows[last.flow]) = Declared(last.undo)
           /\ get_state(flows[last.flow], FALSE) = get_state(last.undo, FALSE)

\* C10: revert() was called on a flow that backup() had captured and that was
\* modified since.
C10_Witness ==
    /\ last.op = "revert"
    /\ last.undo # None
    /\ last.pre.modified
    /\ Declared(flows[last.flow]) = Declared(last.undo)

\* The full state of a flow as computed afresh from its declared fields.
FullState(f) == [version |-> IVERSION] @@ StateObject_get_state(f, FALSE)

\* C11: once a flow holds a backup, backup() changes nothing, field edits and
\* the transitions leave the stored backup as it is, and only revert()
\* empties the slot; the backup of a flow that backup() captured is the full
\* state the flow had at that capture.
C11_BackupCapturedOnce ==
    [][\A i \in DOMAIN flows :
         /\ (flows[i].backup # None /\ Backup(i)) => NothingChanged
         /\ flows[i].backup # None =>
                \/ flows'[i].backup = flows[i].backup
                \/ Revert(i) /\ flows'[i].backup = None
         /\ snap'[i] # None => flows'[i].backup = FullState(snap'[i])]_vars

\* C11: backup() was called again on a flow that was captured and edited.
C11_Witness ==
    /\ last.op = "backup"
    /\ last.pre.backup
    /\ last.pre.modified
    /\ snap[last.flow] # None
    /\ flows[last.flow].backup = FullState(snap[last.flow])

\* C12: revert() leaves the backup slot empty, invokes no reply and notifies
\* nobody; on a flow without backup it changes nothing.
C12_RevertClearsBackup ==
    [][\A i \in DOMAIN flows : Revert(i) =>
         /\ flows'[i].backup = None
         /\ replies' = replies
         /\ master' = master
         /\ handler' = handler
         /\ ~last'.raised
         /\ flows[i].backup = None => flows' = flows]_vars

\* C12: revert() ran on a flow that held a backup.
C12_Witness ==
    /\ last.op = "revert"
    /\ last.pre.backup
    /\ flows[last.flow].backup = None

\* C13: modified() is true exactly when the flow holds a backup that differs
\* from its current full state.
C13_ModifiedIffBackupDiffers ==
    \A i \in DOMAIN flows :
        modified(flows[i]) <=>
            (flows[i].backup # None /\ flows[i].backup # FullState(flows[i]))

\* C13: a flow with a backup was edited and the edit was undone by hand, so
\* that its full state equals the backup again.
C13_Witness ==
    /\ last.op = "edit"
    /\ last.pre.modified
    /\ flows[last.flow].backup # None
    /\ flows[last.flow].backup = FullState(flows[last.flow])
    /\ ~modified(flows[last.flow])

\* C14: the full dump of a flow carries the whole backup under "backup"
\* exactly when modified() is true, and the short dump carries modified = TRUE
\* exactly when modified() is true.
C14_DumpReportsPendingEdit ==
    \A i \in DOMAIN flows :
        LET f == flows[i]
            full == get_state(f, FALSE)
            short == get_state(f, TRUE)
        IN  /\ "backup" \in DOMAIN full <=> modified(f)
            /\ "backup" \in DOMAIN full => full.backup = f.backup
            /\ "modified" \in DOMAIN short <=> modified(f)
            /\ "modified" \notin DOMAIN full
            /\ "backup" \notin DOMAIN short

\* C15: copy() gives the duplicate a fresh id and live = False, and the
\* duplicate holds none of the original's mutable objects: its reply slot does
\* not hold the original's reply continuation.
C15_CopyIsIndependent ==
    [][\A i \in DOMAIN flows : Copy(i) =>
         LET c == flows'[Len(flows')]
         IN  /\ c.id # flows[i].id
             /\ c.live = "False"
             /\ flows[i].reply # None => c.reply # flows[i].reply]_vars

\* C16: the error of a copy made by Flow.copy() has the msg and timestamp of
\* the original's error and an unset back-reference, also when the original's
\* error refers back to its flow.
C16_ErrorCopyHasNoOwner ==
    [][\A i \in DOMAIN flows : (Copy(i) /\ flows[i].error # None) =>
         LET e == flows'[Len(flows')].error
         IN  /\ e # None
             /\ e.msg = flows[i].error.msg
             /\ e.timestamp = flows[i].error.timestamp
             /\ e.flow = None]_vars

\* C17: the snapshot a backup() stores is the full state the flow had at
\* one instant between the start and the end of the capture.
C17_CaptureIsAtomic ==
    (cap # None /\ cap.pc = "done") =>
        \E f \in cap.seen : flows[1].backup = FullState(f)

\* C18: a release of a flow that holds a reply continuation makes its calls
\* in this order and with the flow already updated: accept_intercept() on an
\* intercepted flow invokes reply once without payload and then
\* master.handle_accept_intercept once, both with intercepted false; kill()
\* invokes reply once with Kill and then master.handle_error once, both with
\* the error set and intercepted false; a handler blocked on the reply resumes.
C18_ReleaseOrder ==
    LET f == flows[last.flow]
        After(kind, arg) ==
            [kind |-> kind, arg |-> arg, intercepted |-> FALSE,
             error |-> f.error # None]
    IN  /\ (last.op = "accept_intercept" /\ last.pre.intercepted
                /\ f.reply # None) =>
               /\ ~last.raised
               /\ ~f.intercepted
               /\ last.trace = <<After("reply", NoPayload),
                                 After("handle_accept_intercept", NoPayload)>>
               /\ last.pre.blocked => handler = "running"
        /\ (last.op = "kill" /\ f.reply # None) =>
               /\ ~last.raised
               /\ ~f.intercepted
               /\ Killed(f)
               /\ last.trace = <<After("reply", Kill),
                                 After("handle_error", NoPayload)>>
               /\ last.pre.blocked => handler = "aborted"

\* C18: accept_intercept() released an intercepted flow whose handler was
\* blocked on the reply.
C18_Witness ==
    /\ last.op = "accept_intercept"
    /\ last.pre.intercepted
    /\ last.pre.blocked
    /\ Payloads(last.trace) = <<NoPayload>>
    /\ handler = "running"

\* C19: no call of intercept(), accept_intercept(), kill(), backup() or
\* revert() on a copy invokes the reply continuation held by the original,
\* resumes the original's handler, or changes the original's intercepted,
\* error or backup.
C19_CopyNeverReachesOriginal ==
    [][\A j \in DOMAIN flows :
         (/\ j # 1
          /\ \/ Intercept(j) \/ AcceptIntercept(j) \/ KillFlow(j)
             \/ Backup(j) \/ Revert(j)) =>
             /\ flows'[1] = flows[1]
             /\ handler' = handler
             /\ flows[1].reply # None =>
                    replies'[flows[1].reply.ref] = replies[flows[1].reply.ref]]_vars

\* C20: backup(), revert() and copy() leave the intercepted flag of the flow
\* they are called on as it was, invoke no reply and notify nobody.
\* (modified() and get_state() are operators of the model: they read a flow
\* and change nothing.)
C20_OnlyTransitionsChangeInterception ==
    [][\A i \in DOMAIN flows :
         (Backup(i) \/ Revert(i) \/ Copy(i)) =>
             /\ flows'[i].intercepted = flows[i].intercepted
             /\ replies' = replies
             /\ master' = master
             /\ handler' = handler]_vars

====
